---------------------------- MODULE Spec2Model ----------------------------
(***************************************************************************)
(* A model of the Pivotier addon (a Blender plugin): the operators that    *)
(* align objects, the 3D cursor and object origins, the property groups    *)
(* the panels and the operators use, and the addon's registration.         *)
(*                                                                         *)
(* The host scene is the state: each object's location, rotation_euler     *)
(* and selection flag, the view layer's active object, the 3D cursor and   *)
(* the undo stack.  Every operator is one action, the whole handler.       *)
(*                                                                         *)
(* Numbers.  Coordinates and Euler angles are integers in units of         *)
(* 1/Scale, with every initial value a multiple of Scale, so that the      *)
(* divisions the code makes (an average over at most Cardinality(Objects)  *)
(* objects, at most MaxCalls times in a row, and a median of at most       *)
(* Cardinality(BMVerts) vertices) are exact.  An Euler angle of one scene  *)
(* unit is a quarter turn, so that rotation matrices are integer.          *)
(***************************************************************************)
EXTENDS Integers, Sequences, FiniteSets, TLC

(***************************************************************************)
(* Bounds                                                                  *)
(***************************************************************************)
\* Operator calls in one behaviour.
MaxCalls == 2
\* Edits of property values in one behaviour.
MaxEdits == 2
\* Selected elements (faces, edges and vertices together) of the edit mesh.
MaxSelected == 3

(***************************************************************************)
(* The scene's objects                                                     *)
(***************************************************************************)
\* bpy.data.objects, in the order the host lists them.
ObjOrder == <<"Wedge", "Empty", "Tetra">>
Objects == {ObjOrder[i] : i \in 1..Len(ObjOrder)}
\* No object: Python's None.
None == "None"

\* obj.type
ObjType(o) == IF o = "Empty" THEN "EMPTY" ELSE "MESH"

RECURSIVE Gcd(_, _)
Gcd(a, b) == IF b = 0 THEN a ELSE Gcd(b, a % b)
Lcm2(a, b) == (a * b) \div Gcd(a, b)
RECURSIVE Lcm(_)
\* The least common multiple of 1..n.
Lcm(n) == IF n <= 1 THEN 1 ELSE Lcm2(n, Lcm(n - 1))

RECURSIVE Pow(_, _)
Pow(b, e) == IF e = 0 THEN 1 ELSE b * Pow(b, e - 1)

\* The vertices of the mesh in edit mode.
BMVerts == 1..8

\* One unit of the scene is Scale model units: enough for MaxCalls averages
\* over the objects and for one average over the vertices of the edit mesh.
Scale == Lcm2(Pow(Lcm(Cardinality(Objects)), MaxCalls), Lcm(Cardinality(BMVerts)))

(***************************************************************************)
(* Vectors (mathutils.Vector, mathutils.Euler): <<x, y, z>>                *)
(***************************************************************************)
Axes == 1..3
Vec(x, y, z) == <<x * Scale, y * Scale, z * Scale>>
Zero == <<0, 0, 0>>
VAdd(a, b) == <<a[1] + b[1], a[2] + b[2], a[3] + b[3]>>
VDiv(a, n) == <<a[1] \div n, a[2] \div n, a[3] \div n>>

RECURSIVE VSum(_, _)
\* The sum of f[o] over the objects of S.
VSum(S, f) ==
    IF S = {} THEN Zero
    ELSE LET o == CHOOSE x \in S : TRUE IN VAdd(f[o], VSum(S \ {o}, f))

\* The poses (location, rotation_euler) an object starts in.
Poses == { [loc |-> Vec(1, 2, 3), rot |-> Vec(0, 1, 2)],
           [loc |-> Vec(5, 7, 4), rot |-> Vec(2, 0, 3)] }
\* The poses the 3D cursor starts in.
CursorPoses == { [loc |-> Vec(9, 8, 6), rot |-> Vec(3, 2, 1)],
                 [loc |-> Vec(1, 2, 3), rot |-> Vec(0, 1, 2)] }

(***************************************************************************)
(* BatchAlignmentSettings                                                  *)
(***************************************************************************)
RelativeTo == {"ACTIVE", "CURSOR", "WORLD", "AVERAGE"}
AlignMode == {"LOCATION", "ROTATION", "BOTH"}
BatchAlignmentSettings ==
    [align_x : BOOLEAN, align_y : BOOLEAN, align_z : BOOLEAN,
     relative_to : RelativeTo, align_mode : AlignMode]
\* The defaults of the property group.
BatchDefaults ==
    [align_x |-> TRUE, align_y |-> TRUE, align_z |-> TRUE,
     relative_to |-> "ACTIVE", align_mode |-> "BOTH"]

VARIABLES
    location,         \* obj.location, per object
    rotation_euler,   \* obj.rotation_euler, per object
    select,           \* obj.select_get(), per object
    active,           \* view_layer.objects.active (context.active_object)
    cursor_location,  \* scene.cursor.location
    cursor_rotation,  \* scene.cursor.rotation_euler
    undo_stack,       \* the undo steps pushed: the message and the transforms then
    scale,            \* obj.scale, per object
    mesh_verts,       \* the local coordinates of obj.data.vertices, per object
    origin_log,       \* the origin_set calls of the last call, with their context
    base_log,         \* the calls of get_base_center_world by themselves: arguments, result
    edit_object,      \* context.edit_object
    bm_select,        \* the selected faces, edges and vertices of the edit mesh
    cursor_matrix,    \* scene.cursor.matrix
    matrix_writes,    \* assignments to scene.cursor.matrix in the last call
    last_alignment,   \* what compute_alignment_data returned in the last call
    scene_batch,      \* context.scene.batch_align_settings
    scene_pivot,      \* context.scene.set_pivot_to_base_props
    wm_batch,         \* context.window_manager.pivotier.batch_align
    wm_pivot,         \* context.window_manager.pivotier.pivot_to_base
    read_props,       \* the property values the last operator call read
    shown_props,      \* the values the main panel showed when it was called
    nedits,           \* property edits so far
    pc,               \* where the addon is: unloaded, idle, registered
    registered,       \* the classes bpy.utils.register_class holds, in order
    rna_props,        \* the properties set on bpy.types.Scene and WindowManager
    addon_keymaps,    \* the addon_keymaps list: a keymap and its item, each
    enable_keymaps,   \* the enable_keymaps preference
    keyconfig,        \* whether wm.keyconfigs.addon is there
    mode,             \* context.mode
    panel_buttons,    \* the idnames of the operator buttons of the main panel
    key_event,        \* the last shortcut pressed and the operator it invoked
    setup_log,        \* the steps of register() and unregister() so far, in order
    pre,              \* the scene as it was on entry to the last call
    op,               \* the last call
    ret,              \* what the function returned: None or an error message
    report,           \* what the operator reported: its level, message and count
    status,           \* what the operator's execute returned
    ref,              \* the reference the last batch alignment used
    ncalls            \* calls so far

sceneVars == <<location, rotation_euler, select, active, cursor_location,
               cursor_rotation, undo_stack>>
pivotVars == <<scale, mesh_verts, origin_log, base_log>>
meshVars == <<edit_object, bm_select, cursor_matrix, matrix_writes, last_alignment>>
storeVars == <<scene_batch, scene_pivot, wm_batch, wm_pivot>>
propVars == <<storeVars, read_props, shown_props, nedits>>
regVars == <<pc, registered, rna_props, addon_keymaps, enable_keymaps, keyconfig,
             mode, panel_buttons, key_event, setup_log>>
callVars == <<pre, op, ret, report, status, ref, ncalls>>
vars == <<sceneVars, pivotVars, meshVars, propVars, regVars, callVars>>

\* context.selected_objects
selected_objects == {o \in Objects : select[o]}

\* The scene, as a call finds it.
Snapshot ==
    [location |-> location, rotation_euler |-> rotation_euler,
     select |-> select, active |-> active,
     cursor_location |-> cursor_location, cursor_rotation |-> cursor_rotation,
     cursor_matrix |-> cursor_matrix, undo_len |-> Len(undo_stack)]

NoRef == [loc |-> Zero, rot |-> Zero]

(***************************************************************************)
(* batch_operations.py                                                     *)
(***************************************************************************)
\* The objects the AVERAGE reference is taken over.
AverageObjects == {o \in selected_objects : ObjType(o) = "MESH"}

\* get_alignment_reference with the ACTIVE branch reading the 3D cursor.
get_alignment_reference_cursor(settings) ==
    CASE settings.relative_to \in {"ACTIVE", "CURSOR"} ->
           [loc |-> cursor_location, rot |-> cursor_rotation]
      [] settings.relative_to = "WORLD" ->
           [loc |-> Zero, rot |-> Zero]
      [] OTHER ->
           LET count == Cardinality(AverageObjects)
               loc == VSum(AverageObjects, location)
               rot == VSum(AverageObjects, rotation_euler)
           IN  IF count > 0
               THEN [loc |-> VDiv(loc, count), rot |-> VDiv(rot, count)]
               ELSE [loc |-> loc, rot |-> rot]

\* get_alignment_reference: the (location, rotation) to align to.
get_alignment_reference(settings) ==
    CASE settings.relative_to = "ACTIVE" ->
           [loc |-> location[active], rot |-> rotation_euler[active]]
      [] settings.relative_to = "CURSOR" ->
           [loc |-> cursor_location, rot |-> cursor_rotation]
      [] settings.relative_to = "WORLD" ->
           [loc |-> Zero, rot |-> Zero]
      [] OTHER ->
           LET count == Cardinality(AverageObjects)
               loc == VSum(AverageObjects, location)
               rot == VSum(AverageObjects, rotation_euler)
           IN  IF count > 0
               THEN [loc |-> VDiv(loc, count), rot |-> VDiv(rot, count)]
               ELSE [loc |-> loc, rot |-> rot]

\* The align_x, align_y, align_z flag of axis i.
AxisFlag(settings, i) ==
    CASE i = 1 -> settings.align_x
      [] i = 2 -> settings.align_y
      [] OTHER -> settings.align_z

\* The object the loop of batch_align_objects passes over.
IsSkipped(o, settings) == o = active /\ settings.relative_to = "ACTIVE"

\* Aligned without the test of align_mode.
Aligned_any_mode(v, r, settings, modes) ==
    [i \in Axes |-> IF AxisFlag(settings, i) THEN r[i] ELSE v[i]]

\* A vector after the assignments of one loop pass: the flagged axes take
\* the reference's value when the mode is one of modes.
Aligned(v, r, settings, modes) ==
    [i \in Axes |->
        IF settings.align_mode \in modes /\ AxisFlag(settings, i)
        THEN r[i] ELSE v[i]]

\* BatchAlignError with its two tests in the other order.
BatchAlignError_active_first(settings) ==
    IF settings.relative_to = "ACTIVE" /\ active = None
    THEN "No active object selected"
    ELSE IF Cardinality(selected_objects) < 1 THEN "No objects selected"
         ELSE None

\* The error batch_align_objects returns before it changes anything.
BatchAlignError(settings) ==
    IF Cardinality(selected_objects) < 1 THEN "No objects selected"
    ELSE IF settings.relative_to = "ACTIVE" /\ active = None
         THEN "No active object selected"
         ELSE None

\* An undo_push that pushes nothing.
undo_push_nothing(message) == undo_stack

\* bpy.ops.ed.undo_push(message): the stack with the scene as it is now.
undo_push(message) ==
    Append(undo_stack, [message |-> message, location |-> location,
                        rotation_euler |-> rotation_euler])

\* batch_align_objects(context, settings)
batch_align_objects(settings) ==
    LET error == BatchAlignError(settings) IN
    IF error # None
    THEN /\ ret' = error
         /\ ref' = NoRef
         /\ UNCHANGED sceneVars
    ELSE LET r == get_alignment_reference(settings) IN
         /\ undo_stack' = undo_push("Batch Align Objects")
         /\ location' =
              [o \in Objects |->
                 IF select[o] /\ ~IsSkipped(o, settings)
                 THEN Aligned(location[o], r.loc, settings, {"LOCATION", "BOTH"})
                 ELSE location[o]]
         /\ rotation_euler' =
              [o \in Objects |->
                 IF select[o] /\ ~IsSkipped(o, settings)
                 THEN Aligned(rotation_euler[o], r.rot, settings, {"ROTATION", "BOTH"})
                 ELSE rotation_euler[o]]
         /\ ret' = None
         /\ ref' = r
         /\ UNCHANGED <<select, active, cursor_location, cursor_rotation>>

\* self.report({level}, message); count is the number the message holds.
Report(level, message, count) == [level |-> level, message |-> message, count |-> count]
NoReport == Report(None, None, 0)

\* What an operator's execute does with the function's result.
Finish(error) ==
    IF error # None
    THEN /\ report' = Report("ERROR", error, 0)
         /\ status' = "CANCELLED"
    ELSE /\ report' = NoReport
         /\ status' = "FINISHED"

\* OBJECT_OT_batch_align.execute
BatchAlignExecute ==
    /\ ncalls < MaxCalls
    /\ batch_align_objects(scene_batch)
    /\ Finish(ret')
    /\ pre' = Snapshot
    /\ op' = "batch_align"
    /\ ncalls' = ncalls + 1
    /\ read_props' = scene_batch
    /\ shown_props' = wm_batch
    /\ UNCHANGED <<pivotVars, meshVars, storeVars, nedits, regVars>>

(***************************************************************************)
(* align_object_to_cursor.py                                               *)
(***************************************************************************)
\* hasattr(obj, "location") and hasattr(obj, "rotation_euler"): every
\* bpy.types.Object has both.
HasTransform(o) == o \in Objects

\* align_object_to_cursor without the assignment of rotation_euler.
align_object_to_cursor_location_only(objects) ==
    IF objects = {}
    THEN /\ ret' = "No objects selected"
         /\ UNCHANGED sceneVars
    ELSE /\ undo_stack' = undo_push("Align Objects to Cursor")
         /\ location' =
              [o \in Objects |->
                 IF o \in objects /\ HasTransform(o)
                 THEN cursor_location ELSE location[o]]
         /\ ret' = None
         /\ UNCHANGED <<rotation_euler, select, active, cursor_location,
                        cursor_rotation>>

\* align_object_to_cursor(objects)
align_object_to_cursor(objects) ==
    IF objects = {}
    THEN /\ ret' = "No objects selected"
         /\ UNCHANGED sceneVars
    ELSE /\ undo_stack' = undo_push("Align Objects to Cursor")
         /\ location' =
              [o \in Objects |->
                 IF o \in objects /\ HasTransform(o)
                 THEN cursor_location ELSE location[o]]
         /\ rotation_euler' =
              [o \in Objects |->
                 IF o \in objects /\ HasTransform(o)
                 THEN cursor_rotation ELSE rotation_euler[o]]
         /\ ret' = None
         /\ UNCHANGED <<select, active, cursor_location, cursor_rotation>>

\* OBJECT_OT_align_object_to_cursor.execute
AlignObjectToCursorExecute ==
    /\ ncalls < MaxCalls
    /\ align_object_to_cursor(selected_objects)
    /\ Finish(ret')
    /\ pre' = Snapshot
    /\ op' = "align_object_to_cursor"
    /\ ref' = NoRef
    /\ ncalls' = ncalls + 1
    /\ UNCHANGED <<pivotVars, meshVars, propVars, regVars>>

(***************************************************************************)
(* Matrices (mathutils.Matrix): <<row 1, row 2, row 3>>.  An Euler angle   *)
(* of one scene unit is a quarter turn, so that every rotation matrix the  *)
(* model builds has entries 0, 1 and -1.                                    *)
(***************************************************************************)
VSub(a, b) == <<a[1] - b[1], a[2] - b[2], a[3] - b[3]>>
Abs(x) == IF x < 0 THEN -x ELSE x
\* The dot product of two vectors.
Dot(a, b) == a[1] * b[1] + a[2] * b[2] + a[3] * b[3]
\* Column j of a matrix.
Column(M, j) == <<M[1][j], M[2][j], M[3][j]>>
MatVec(M, v) == <<Dot(M[1], v), Dot(M[2], v), Dot(M[3], v)>>
\* Row i of the product of two matrices.
MatMulRow(A, B, i) ==
    <<Dot(A[i], Column(B, 1)), Dot(A[i], Column(B, 2)), Dot(A[i], Column(B, 3))>>
MatMul(A, B) == <<MatMulRow(A, B, 1), MatMulRow(A, B, 2), MatMulRow(A, B, 3)>>
Transposed(M) == <<Column(M, 1), Column(M, 2), Column(M, 3)>>
\* Matrix.Diagonal
Diagonal(d) == << <<d[1], 0, 0>>, <<0, d[2], 0>>, <<0, 0, d[3]>> >>
Det(M) ==
      M[1][1] * (M[2][2] * M[3][3] - M[2][3] * M[3][2])
    - M[1][2] * (M[2][1] * M[3][3] - M[2][3] * M[3][1])
    + M[1][3] * (M[2][1] * M[3][2] - M[2][2] * M[3][1])

\* The cosine and the sine of q quarter turns.
Cos4(q) == <<1, 0, -1, 0>>[(q % 4) + 1]
Sin4(q) == <<0, 1, 0, -1>>[(q % 4) + 1]
\* Euler.to_matrix(), order XYZ: the rotation about x, then y, then z.
EulerToMatrix(e) ==
    LET qx == e[1] \div Scale
        qy == e[2] \div Scale
        qz == e[3] \div Scale
        Rx == << <<1, 0, 0>>, <<0, Cos4(qx), -Sin4(qx)>>, <<0, Sin4(qx), Cos4(qx)>> >>
        Ry == << <<Cos4(qy), 0, Sin4(qy)>>, <<0, 1, 0>>, <<-Sin4(qy), 0, Cos4(qy)>> >>
        Rz == << <<Cos4(qz), -Sin4(qz), 0>>, <<Sin4(qz), Cos4(qz), 0>>, <<0, 0, 1>> >>
    IN  MatMul(Rz, MatMul(Ry, Rx))

\* obj.matrix_world of an object without a parent: its translation and its
\* linear part, rotation times scale.
matrix_world(obj) ==
    [loc |-> obj.location,
     lin |-> MatMul(EulerToMatrix(obj.rotation_euler), Diagonal(obj.scale))]

\* Matrix.decompose(): the translation, the rotation and the scale.  The
\* scale of an axis is the length of its column; the rotation is the matrix
\* of the columns normalized; a matrix that mirrors (negative determinant)
\* has both negated.  A column here has one entry that is not 0.
decompose(m) ==
    LET Length(j) == Abs(m.lin[1][j]) + Abs(m.lin[2][j]) + Abs(m.lin[3][j])
        size == <<Length(1), Length(2), Length(3)>>
        Row(i, sign) == <<sign * (m.lin[i][1] \div size[1]),
                          sign * (m.lin[i][2] \div size[2]),
                          sign * (m.lin[i][3] \div size[3])>>
        rot == <<Row(1, 1), Row(2, 1), Row(3, 1)>>
    IN  IF Det(rot) < 0
        THEN [loc |-> m.loc,
              rot |-> <<Row(1, -1), Row(2, -1), Row(3, -1)>>,
              scale |-> <<-size[1], -size[2], -size[3]>>]
        ELSE [loc |-> m.loc, rot |-> rot, scale |-> size]

\* min and max of a set of numbers
Min(S) == CHOOSE x \in S : \A y \in S : x <= y
Max(S) == CHOOSE x \in S : \A y \in S : x >= y

\* obj.bound_box: the eight corners of the box around the mesh, in local
\* coordinates.
bound_box(obj) ==
    LET Lo(i) == Min({v[i] : v \in obj.verts})
        Hi(i) == Max({v[i] : v \in obj.verts})
        lo == <<Lo(1), Lo(2), Lo(3)>>
        hi == <<Hi(1), Hi(2), Hi(3)>>
    IN  {<<x, y, z>> : x \in {lo[1], hi[1]}, y \in {lo[2], hi[2]}, z \in {lo[3], hi[3]}}

RECURSIVE SumVecs(_)
\* The sum of a set of vectors.
SumVecs(S) ==
    IF S = {} THEN Zero
    ELSE LET v == CHOOSE x \in S : TRUE IN VAdd(v, SumVecs(S \ {v}))

(***************************************************************************)
(* set_pivot_to_base.py                                                    *)
(***************************************************************************)
\* The vertices within the tolerance (0.0001) of the lowest: coordinates
\* are whole multiples of 1/Scale, so these are the vertices at min_z.
BaseVerts(verts) ==
    LET min_z == Min({v[3] : v \in verts})
    IN  {v \in verts : v[3] = min_z}

\* The centre in x and y and the top in z of a set of corners.
BoxBaseCenter_top(corners) ==
    LET min_x == Min({v[1] : v \in corners})
        max_x == Max({v[1] : v \in corners})
        min_y == Min({v[2] : v \in corners})
        max_y == Max({v[2] : v \in corners})
        max_z == Max({v[3] : v \in corners})
    IN  <<(min_x + max_x) \div 2, (min_y + max_y) \div 2, max_z>>

\* The centre in x and y and the bottom in z of a set of corners.
BoxBaseCenter(corners) ==
    LET min_x == Min({v[1] : v \in corners})
        max_x == Max({v[1] : v \in corners})
        min_y == Min({v[2] : v \in corners})
        max_y == Max({v[2] : v \in corners})
        min_z == Min({v[3] : v \in corners})
    IN  <<(min_x + max_x) \div 2, (min_y + max_y) \div 2, min_z>>

\* The mean of the base vertices.  Two vertices that coincide after the
\* transform are two terms of the code's sum: the sum is taken over the
\* local vertices, each transformed by m.
GeometryBaseCenter(verts, m) ==
    LET transformed == {MatVec(m, v) : v \in verts}
        min_z == Min({v[3] : v \in transformed})
        base == {v \in verts : MatVec(m, v)[3] = min_z}
    IN  VDiv(MatVec(m, SumVecs(base)), Cardinality(base))

Identity3 == Diagonal(<<1, 1, 1>>)

\* get_base_center_world(obj, ignore_rotation, use_geometry)
get_base_center_world(obj, ignore_rotation, use_geometry) ==
    IF ignore_rotation
    THEN LET d == decompose(matrix_world(obj))
             apply_rotation_matrix == MatMul(d.rot, Diagonal(d.scale))
             center ==
               IF use_geometry
               THEN GeometryBaseCenter(obj.verts, apply_rotation_matrix)
               ELSE BoxBaseCenter({MatVec(apply_rotation_matrix, v) : v \in bound_box(obj)})
         IN  VAdd(d.loc, center)
    ELSE LET m == matrix_world(obj)
             center_local ==
               IF use_geometry
               THEN GeometryBaseCenter(obj.verts, Identity3)
               ELSE BoxBaseCenter(bound_box(obj))
         IN  VAdd(m.loc, MatVec(m.lin, center_local))


\* SetPivotToBaseProperties
SetPivotToBaseProperties == [ignore_rotation : BOOLEAN, use_geometry : BOOLEAN]

\* The objects of ObjOrder that are in S, in that order: a list such as
\* context.selected_objects.
RECURSIVE ListOf(_, _)
ListOf(S, order) ==
    IF order = <<>> THEN <<>>
    ELSE IF Head(order) \in S
         THEN <<Head(order)>> \o ListOf(S, Tail(order))
         ELSE ListOf(S, Tail(order))

\* The scene in the middle of a call: what the call has changed so far.
Scene ==
    [location |-> location, mesh_verts |-> mesh_verts, select |-> select,
     active |-> active, cursor_location |-> cursor_location,
     cursor_rotation |-> cursor_rotation, log |-> <<>>, raised |-> FALSE]

\* Object o of scene st, as get_base_center_world reads it.
ObjectOf(st, o) ==
    [location |-> st.location[o], rotation_euler |-> rotation_euler[o],
     scale |-> scale[o], verts |-> st.mesh_verts[o]]

\* The objects bpy.ops.object.origin_set acts on: the selected meshes.
OriginSetTargets(st) == {o \in Objects : st.select[o] /\ ObjType(o) = "MESH"}

\* bpy.ops.object.origin_set(type='ORIGIN_CURSOR'): the origin of every
\* selected mesh moves to the cursor and its vertices move the other way in
\* local space, so the geometry stays where it is in the world.
origin_set(st) ==
    LET targets == OriginSetTargets(st)
        Delta(o) ==
          LET m == matrix_world(ObjectOf(st, o))
              d == MatVec(Transposed(EulerToMatrix(rotation_euler[o])),
                          VSub(st.cursor_location, m.loc))
          IN  <<d[1] \div scale[o][1], d[2] \div scale[o][2], d[3] \div scale[o][3]>>
    IN  [st EXCEPT
           !.location = [o \in Objects |->
                           IF o \in targets THEN st.cursor_location ELSE @[o]],
           !.mesh_verts = [o \in Objects |->
                           IF o \in targets
                           THEN {VSub(v, Delta(o)) : v \in @[o]} ELSE @[o]],
           !.log = Append(@, [selected |-> {o \in Objects : st.select[o]},
                              active |-> st.active,
                              cursor_location |-> st.cursor_location])]

\* The steps of a call that may raise, <<object, step>>: the host's
\* operators and, for a mesh without the data it needs,
\* get_base_center_world.  <<None, None>>: no step raises.
PivotFailures ==
    {<<None, None>>, <<None, "select_all">>}
      \cup {<<o, step>> : o \in {x \in Objects : ObjType(x) = "MESH"},
                          step \in {"select_set", "get_base_center_world", "origin_set"}}

\* One pass of the loop of set_pivot_to_base over object o; fail is the step
\* that raises.
PivotLoopBody(st, o, ignore_rotation, use_geometry, fail) ==
    IF ObjType(o) # "MESH" THEN st
    ELSE IF fail = <<o, "select_set">> THEN [st EXCEPT !.raised = TRUE]
    ELSE
      LET selected == [st EXCEPT !.select[o] = TRUE, !.active = o] IN
      IF fail = <<o, "get_base_center_world">>
      THEN [selected EXCEPT !.raised = TRUE]
      ELSE
        LET base_center ==
              get_base_center_world(ObjectOf(selected, o), ignore_rotation, use_geometry)
            moved == [selected EXCEPT
                        !.cursor_location = base_center,
                        !.cursor_rotation =
                            IF ignore_rotation THEN Zero ELSE rotation_euler[o]]
        IN  IF fail = <<o, "origin_set">>
            THEN [moved EXCEPT !.raised = TRUE]
            ELSE [origin_set(moved) EXCEPT !.select[o] = FALSE]

RECURSIVE PivotLoop(_, _, _, _, _)
\* The loop of set_pivot_to_base over the list objects, up to a raise.
PivotLoop(objects, st, ignore_rotation, use_geometry, fail) ==
    IF objects = <<>> \/ st.raised THEN st
    ELSE PivotLoop(Tail(objects),
                   PivotLoopBody(st, Head(objects), ignore_rotation, use_geometry, fail),
                   ignore_rotation, use_geometry, fail)

\* The try block of set_pivot_to_base: select_all(action='DESELECT'), then
\* the loop.
PivotTry(objects, ignore_rotation, use_geometry, fail) ==
    IF fail = <<None, "select_all">> THEN [Scene EXCEPT !.raised = TRUE]
    ELSE PivotLoop(objects,
                   [Scene EXCEPT !.select = [o \in Objects |-> FALSE]],
                   ignore_rotation, use_geometry, fail)

\* The active object after the finally block: the stored one, when there
\* was one (if active_obj:).
RestoredActive(stored, current) == IF stored # None THEN stored ELSE current

\* set_pivot_to_base(objects, ignore_rotation, use_geometry); fail is the
\* step of the try block that raises, if any.
set_pivot_to_base(objects, ignore_rotation, use_geometry, fail) ==
    IF objects = <<>>
    THEN /\ ret' = "No objects selected"
         /\ origin_log' = <<>>
         /\ UNCHANGED <<sceneVars, mesh_verts>>
    ELSE LET st == PivotTry(objects, ignore_rotation, use_geometry, fail) IN
         /\ location' = st.location
         /\ mesh_verts' = st.mesh_verts
         /\ origin_log' = st.log
         \* finally
         /\ cursor_location' = cursor_location
         /\ cursor_rotation' = cursor_rotation
         /\ select' = select
         /\ active' = RestoredActive(active, st.active)
         /\ ret' = IF st.raised THEN "raised" ELSE None
         /\ UNCHANGED <<rotation_euler, undo_stack>>

\* OBJECT_OT_set_pivot_to_base.invoke, with the execute it ends in.  An
\* exception leaves execute before it reports.
SetPivotToBaseInvoke ==
    /\ ncalls < MaxCalls
    /\ \E fail \in PivotFailures :
         set_pivot_to_base(ListOf(selected_objects, ObjOrder),
                           scene_pivot.ignore_rotation, scene_pivot.use_geometry, fail)
    /\ IF ret' = "raised"
       THEN /\ report' = NoReport
            /\ status' = "raised"
       ELSE IF ret' # None
       THEN /\ report' = Report("ERROR", ret', 0)
            /\ status' = "CANCELLED"
       ELSE /\ report' = Report("INFO", "Set pivot to base for {count} objects",
                                Cardinality({o \in selected_objects : ObjType(o) = "MESH"}))
            /\ status' = "FINISHED"
    /\ pre' = Snapshot
    /\ op' = "set_pivot_to_base"
    /\ ref' = NoRef
    /\ ncalls' = ncalls + 1
    /\ read_props' = scene_pivot
    /\ shown_props' = wm_pivot
    /\ UNCHANGED <<scale, base_log, meshVars, storeVars, nedits, regVars>>


\* A call of get_base_center_world(obj, ignore_rotation, use_geometry) by
\* itself, on a mesh of the scene: the function changes nothing.
GetBaseCenterWorldCall ==
    /\ ncalls < MaxCalls
    /\ \E o \in {x \in Objects : ObjType(x) = "MESH"} :
         \E ignore_rotation \in BOOLEAN, use_geometry \in BOOLEAN :
           base_log' = Append(base_log,
                              [obj |-> o, ignore_rotation |-> ignore_rotation,
                               use_geometry |-> use_geometry,
                               result |-> get_base_center_world(ObjectOf(Scene, o),
                                                                ignore_rotation,
                                                                use_geometry)])
    /\ pre' = Snapshot
    /\ op' = "get_base_center_world"
    /\ ret' = None
    /\ report' = NoReport
    /\ status' = None
    /\ ref' = NoRef
    /\ ncalls' = ncalls + 1
    /\ UNCHANGED <<sceneVars, scale, mesh_verts, origin_log, meshVars, propVars, regVars>>

(***************************************************************************)
(* set_pivot_to_cursor.py                                                  *)
(***************************************************************************)
\* The steps of the try block of set_pivot_to_cursor that may raise:
\* the host's operators.  <<None, None>>: no step raises.
CursorFailures ==
    {<<None, None>>, <<None, "select_all">>}
      \cup {<<o, step>> : o \in {x \in Objects : ObjType(x) = "MESH"},
                          step \in {"select_set", "origin_set"}}

\* One pass of the loop of set_pivot_to_cursor over object o.
CursorLoopBody(st, o, fail) ==
    IF ObjType(o) # "MESH" THEN st
    ELSE IF fail = <<o, "select_set">> THEN [st EXCEPT !.raised = TRUE]
    ELSE
      LET selected == [st EXCEPT !.select[o] = TRUE, !.active = o]
      IN  IF fail = <<o, "origin_set">>
          THEN [selected EXCEPT !.raised = TRUE]
          ELSE [origin_set(selected) EXCEPT !.select[o] = FALSE]

RECURSIVE CursorLoop(_, _, _)
\* The loop of set_pivot_to_cursor over the list objects, up to a raise.
CursorLoop(objects, st, fail) ==
    IF objects = <<>> \/ st.raised THEN st
    ELSE CursorLoop(Tail(objects), CursorLoopBody(st, Head(objects), fail), fail)

\* The try block of set_pivot_to_cursor: select_all(action='DESELECT'), then
\* the loop over context.selected_objects, read when the loop begins: the
\* objects whose selection flag is set then.
CursorTry(fail) ==
    IF fail = <<None, "select_all">> THEN [Scene EXCEPT !.raised = TRUE]
    ELSE LET deselected == [Scene EXCEPT !.select = [o \in Objects |-> FALSE]]
         IN  CursorLoop(ListOf({o \in Objects : deselected.select[o]}, ObjOrder),
                        deselected, fail)

\* set_pivot_to_cursor(context); fail is the step of the try block that
\* raises, if any: the except clause returns the exception's text.
set_pivot_to_cursor(fail) ==
    IF selected_objects = {}
    THEN /\ ret' = "No objects selected"
         /\ origin_log' = <<>>
         /\ UNCHANGED <<sceneVars, mesh_verts>>
    ELSE LET st == CursorTry(fail) IN
         /\ location' = st.location
         /\ mesh_verts' = st.mesh_verts
         /\ origin_log' = st.log
         \* finally
         /\ select' = select
         /\ cursor_location' = cursor_location
         /\ cursor_rotation' = cursor_rotation
         /\ active' = RestoredActive(active, st.active)
         /\ ret' = IF st.raised THEN "str(e)" ELSE None
         /\ UNCHANGED <<rotation_euler, undo_stack>>

\* A call of set_pivot_to_cursor(context).  No operator of the addon calls
\* it (OBJECT_OT_set_pivot_to_cursor.execute calls align_pivot_to_cursor),
\* so nothing is reported.
SetPivotToCursorCall ==
    /\ ncalls < MaxCalls
    /\ \E fail \in CursorFailures : set_pivot_to_cursor(fail)
    /\ report' = NoReport
    /\ status' = None
    /\ pre' = Snapshot
    /\ op' = "set_pivot_to_cursor"
    /\ ref' = NoRef
    /\ ncalls' = ncalls + 1
    /\ UNCHANGED <<scale, base_log, meshVars, propVars, regVars>>


(***************************************************************************)
(* align_cursor_to_normal.py                                               *)
(*                                                                         *)
(* The mesh in edit mode is a box.  A unit vector is held as a direction:  *)
(* the integer vector of least length that points its way (Normalized),    *)
(* and <<0, 0, 0>> for what normalized() makes of the zero vector.  The    *)
(* vectors one sum adds have one length (the normals of the faces, or of   *)
(* the corners of the box), so the direction of a sum is exact.            *)
(***************************************************************************)
\* v.co, per vertex of bm.verts
VertCo ==
    <<Vec(0, 0, 0), Vec(2, 0, 0), Vec(2, 4, 0), Vec(0, 4, 0),
      Vec(0, 0, 6), Vec(2, 0, 6), Vec(2, 4, 6), Vec(0, 4, 6)>>
\* bm.edges: the two vertices of each edge, in the order of edge.verts
BMEdgeVerts ==
    << <<1, 2>>, <<2, 3>>, <<3, 4>>, <<4, 1>>,
       <<5, 6>>, <<6, 7>>, <<7, 8>>, <<8, 5>>,
       <<1, 5>>, <<2, 6>>, <<3, 7>>, <<4, 8>> >>
\* bm.faces: the vertices of each face, in the order of face.verts
\* (counter-clockwise seen from outside)
BMFaceVerts ==
    << <<1, 4, 3, 2>>, <<5, 6, 7, 8>>, <<1, 2, 6, 5>>,
       <<3, 4, 8, 7>>, <<2, 3, 7, 6>>, <<4, 1, 5, 8>> >>
BMEdges == 1..Len(BMEdgeVerts)
BMFaces == 1..Len(BMFaceVerts)

Cross(a, b) ==
    <<a[2] * b[3] - a[3] * b[2], a[3] * b[1] - a[1] * b[3], a[1] * b[2] - a[2] * b[1]>>
\* Vector.normalized(), as a direction.
Normalized(v) ==
    LET g == Gcd(Abs(v[1]), Gcd(Abs(v[2]), Abs(v[3])))
    IN  IF g = 0 THEN Zero ELSE <<v[1] \div g, v[2] \div g, v[3] \div g>>
\* The vector from vertex a to vertex b, in scene units.
EdgeVector(a, b) == VDiv(VSub(VertCo[b], VertCo[a]), Scale)

\* face.normal: a unit vector, at right angles to the face's first two edges.
FaceNormal(f) ==
    LET vs == BMFaceVerts[f]
    IN  Normalized(Cross(EdgeVector(vs[1], vs[2]), EdgeVector(vs[2], vs[3])))

\* vert.normal: the normalized sum of the normals of the vertex's faces; the
\* three components of a corner's normal are +-1 (times 1/sqrt(3)).
VertNormal(v) ==
    LET faces == {f \in BMFaces : \E i \in 1..Len(BMFaceVerts[f]) : BMFaceVerts[f][i] = v}
    IN  Normalized(SumVecs({FaceNormal(f) : f \in faces}))

\* vert.link_edges: the edges of the vertex, the box's in the order of
\* bm.edges.
LinkEdges(v) == {e \in BMEdges : BMEdgeVerts[e][1] = v \/ BMEdgeVerts[e][2] = v}

\* The vertices of a set of faces, and of a set of edges: the code's set().
VertsOfFaces(faces) == {BMFaceVerts[f][i] : f \in faces, i \in 1..4}
VertsOfEdges(edges) == {BMEdgeVerts[e][i] : e \in edges, i \in 1..2}

RECURSIVE SumOver(_, _)
\* The sum of F[x] over the elements x of S: equal terms are added each.
SumOver(S, F) ==
    IF S = {} THEN Zero
    ELSE LET x == CHOOSE y \in S : TRUE IN VAdd(F[x], SumOver(S \ {x}, F))

\* The median of a set of vertices.
Median(verts) == VDiv(SumOver(verts, VertCo), Cardinality(verts))

\* No alignment data: compute_alignment_data returned None.
NoAlignment == [source |-> None, normal |-> Zero, location |-> Zero, tangent |-> Zero]

\* The branch for selected faces with the location a mean over the faces'
\* corners, a vertex counted once for each selected face it belongs to.
FaceAlignment_per_corner(sel_faces) ==
    LET first == BMFaceVerts[Min(sel_faces)]
        corners == [f \in BMFaces |->
                      VAdd(VAdd(VertCo[BMFaceVerts[f][1]], VertCo[BMFaceVerts[f][2]]),
                           VAdd(VertCo[BMFaceVerts[f][3]], VertCo[BMFaceVerts[f][4]]))]
    IN  [source |-> "faces",
         normal |-> Normalized(SumOver(sel_faces, [f \in BMFaces |-> FaceNormal(f)])),
         location |-> VDiv(SumOver(sel_faces, corners), 4 * Cardinality(sel_faces)),
         tangent |-> Normalized(EdgeVector(first[1], first[2]))]

\* The branch of compute_alignment_data for selected faces.
FaceAlignment(sel_faces) ==
    LET first == BMFaceVerts[Min(sel_faces)]
    IN  [source |-> "faces",
         normal |-> Normalized(SumOver(sel_faces, [f \in BMFaces |-> FaceNormal(f)])),
         location |-> Median(VertsOfFaces(sel_faces)),
         tangent |-> Normalized(EdgeVector(first[1], first[2]))]

\* The branch for selected edges: the normal of an edge is the middle of
\* its vertices' normals (lerp by 0.5), held here as their sum.
EdgeAlignment(sel_edges) ==
    [source |-> "edges",
     normal |-> Normalized(SumOver(sel_edges,
                  [e \in BMEdges |-> VAdd(VertNormal(BMEdgeVerts[e][1]),
                                          VertNormal(BMEdgeVerts[e][2]))])),
     location |-> Median(VertsOfEdges(sel_edges)),
     tangent |-> Normalized(SumOver(sel_edges,
                  [e \in BMEdges |-> EdgeVector(BMEdgeVerts[e][1], BMEdgeVerts[e][2])]))]

\* The branch for selected vertices.
VertAlignment(sel_verts) ==
    LET vert == Min(sel_verts)
        linked_edges == LinkEdges(vert)
        first == BMEdgeVerts[Min(linked_edges)]
    IN  [source |-> "verts",
         normal |-> Normalized(SumOver(sel_verts, [v \in BMVerts |-> VertNormal(v)])),
         location |-> Median(sel_verts),
         tangent |-> IF linked_edges # {}
                     THEN Normalized(EdgeVector(first[1], first[2]))
                     ELSE <<1, 0, 0>>]

\* compute_alignment_data with the edges asked before the faces.
compute_alignment_data_edges_first(sel) ==
    IF sel.edges # {} THEN EdgeAlignment(sel.edges)
    ELSE IF sel.faces # {} THEN FaceAlignment(sel.faces)
    ELSE IF sel.verts # {} THEN VertAlignment(sel.verts)
    ELSE NoAlignment

\* compute_alignment_data(bm): (normal, location, tangent), with the branch
\* that made them.
compute_alignment_data(sel) ==
    IF sel.faces # {} THEN FaceAlignment(sel.faces)
    ELSE IF sel.edges # {} THEN EdgeAlignment(sel.edges)
    ELSE IF sel.verts # {} THEN VertAlignment(sel.verts)
    ELSE NoAlignment

\* abs(a.dot(b)) > 0.99 for the unit vectors of directions a and b:
\* (a.b)^2 > 0.9801 |a|^2 |b|^2.
NearlyParallel(a, b) ==
    10000 * Dot(a, b) * Dot(a, b) > 9801 * Dot(a, a) * Dot(b, b)

\* The tangent after the test against the normal: X, then Y.
SafeTangent(normal, tangent) ==
    IF NearlyParallel(normal, tangent)
    THEN IF NearlyParallel(normal, <<1, 0, 0>>) THEN <<0, 1, 0>> ELSE <<1, 0, 0>>
    ELSE tangent

\* The three axes align_cursor_to_normal builds from the alignment data.
Frame(data) ==
    LET normal == data.normal
        binormal == Normalized(Cross(normal, SafeTangent(normal, data.tangent)))
        tangent == Normalized(Cross(binormal, normal))
    IN  [tangent |-> tangent, binormal |-> binormal, normal |-> normal]

\* The matrix align_cursor_to_normal gives the cursor: matrix_world times
\* the translation to location times the matrix whose columns are tangent,
\* binormal and normal.  Each column is held as a direction.
AlignmentMatrix(m, data) ==
    LET frame == Frame(data)
        orientation_matrix == Transposed(<<frame.tangent, frame.binormal, frame.normal>>)
    IN  [loc |-> VAdd(m.loc, MatVec(m.lin, data.location)),
         lin |-> MatMul(m.lin, orientation_matrix)]

\* The object in edit mode, as matrix_world reads it.
EditObject ==
    [location |-> location[edit_object], rotation_euler |-> rotation_euler[edit_object],
     scale |-> scale[edit_object], verts |-> mesh_verts[edit_object]]

\* align_cursor_to_normal(context)
align_cursor_to_normal ==
    IF edit_object = None
    THEN /\ ret' = "No object in edit mode"
         /\ matrix_writes' = 0
         /\ last_alignment' = NoAlignment
         /\ UNCHANGED <<cursor_matrix, cursor_location>>
    ELSE LET alignment_data == compute_alignment_data(bm_select) IN
         IF alignment_data.source = None
         THEN /\ ret' = "No valid selection found"
              /\ matrix_writes' = 0
              /\ last_alignment' = NoAlignment
              /\ UNCHANGED <<cursor_matrix, cursor_location>>
         ELSE /\ cursor_matrix' = AlignmentMatrix(matrix_world(EditObject), alignment_data)
              /\ cursor_location' = cursor_matrix'.loc
              /\ matrix_writes' = 1
              /\ last_alignment' = alignment_data
              /\ ret' = None

\* VIEW3D_OT_align_cursor_to_normal.execute.  poll is no guard here, so
\* that the function's own tests are met as any caller of it meets them.
\* The cursor's rotation_euler follows its matrix in the host; nothing
\* modelled reads it afterwards.
AlignCursorToNormalExecute ==
    /\ ncalls < MaxCalls
    /\ align_cursor_to_normal
    /\ Finish(ret')
    /\ pre' = Snapshot
    /\ op' = "align_cursor_to_normal"
    /\ ref' = NoRef
    /\ ncalls' = ncalls + 1
    /\ UNCHANGED <<location, rotation_euler, select, active, cursor_rotation,
                   undo_stack, pivotVars, edit_object, bm_select, propVars, regVars>>


(***************************************************************************)
(* __init__.py: the addon's modules, their classes and the keymap          *)
(***************************************************************************)
\* A class of a module's classes tuple; bl_idname is None for a class that
\* is no operator.
Class(module, name, bl_idname) == [module |-> module, name |-> name, bl_idname |-> bl_idname]

\* The classes tuple of each module.
preferences_classes ==
    <<Class("preferences", "VIEW3D_MT_align_toolkit_presets", None),
      Class("preferences", "ALIGN_TOOLKIT_OT_add_preset", "align_toolkit.preset_add"),
      Class("preferences", "AlignToolkitPreferences", None)>>
properties_classes ==
    <<Class("properties", "SetPivotToBaseProperties", None),
      Class("properties", "BatchAlignmentProperties", None),
      Class("properties", "PivotierProperties", None)>>
batch_operations_classes ==
    <<Class("batch_operations", "BatchAlignmentSettings", None),
      Class("batch_operations", "OBJECT_OT_batch_align", "object.batch_align"),
      Class("batch_operations", "VIEW3D_PT_batch_align_panel", None)>>
align_cursor_to_normal_classes ==
    <<Class("align_cursor_to_normal", "VIEW3D_OT_align_cursor_to_normal",
            "view3d.align_cursor_to_normal")>>
align_object_to_cursor_classes ==
    <<Class("align_object_to_cursor", "OBJECT_OT_align_object_to_cursor",
            "object.align_object_to_cursor"),
      Class("align_object_to_cursor", "VIEW3D_PT_align_object_to_cursor_panel", None)>>
set_pivot_to_base_classes ==
    <<Class("set_pivot_to_base", "SetPivotToBaseProperties", None),
      Class("set_pivot_to_base", "OBJECT_OT_set_pivot_to_base", "object.set_pivot_to_base"),
      Class("set_pivot_to_base", "VIEW3D_PT_set_pivot_to_base_panel", None)>>
set_pivot_to_cursor_classes ==
    <<Class("set_pivot_to_cursor", "OBJECT_OT_align_pivot_to_cursor",
            "object.align_pivot_to_cursor"),
      Class("set_pivot_to_cursor", "OBJECT_OT_invert_pivot_z_axis",
            "object.invert_pivot_z_axis"),
      Class("set_pivot_to_cursor", "OBJECT_OT_set_pivot_to_cursor",
            "object.set_pivot_to_cursor")>>
align_view_to_cursor_classes ==
    <<Class("align_view_to_cursor", "VIEW3D_OT_align_view_to_cursor",
            "view3d.align_view_to_cursor")>>
ui_classes ==
    <<Class("ui", "VIEW3D_PT_pivotier", None)>>

\* The properties a module's register() sets on a type of bpy.types.
ModuleProps(module) ==
    IF module = "properties" THEN {"WindowManager.pivotier"}
    ELSE IF module = "batch_operations" THEN {"Scene.batch_align_settings"}
    ELSE IF module = "set_pivot_to_base" THEN {"Scene.set_pivot_to_base_props"}
    ELSE {}

\* The state of the registry: the classes held and the properties set.
Registry(classes, props) == [classes |-> classes, props |-> props]

\* A module's register(): each class of its tuple, then its property.
ModuleRegister(reg, classes) ==
    Registry(reg.classes \o classes,
             reg.props \cup UNION {ModuleProps(classes[i].module) : i \in 1..Len(classes)})

\* A module's unregister(): its classes leave the registry, its property is
\* deleted.
ModuleUnregister(reg, classes) ==
    LET gone == {classes[i] : i \in 1..Len(classes)}
    IN  Registry(SelectSeq(reg.classes, LAMBDA c : c \notin gone),
                 reg.props \ UNION {ModuleProps(c.module) : c \in gone})

\* The classes tuple of a module.
ModuleClasses(module) ==
    CASE module = "preferences" -> preferences_classes
      [] module = "properties" -> properties_classes
      [] module = "batch_operations" -> batch_operations_classes
      [] module = "align_cursor_to_normal" -> align_cursor_to_normal_classes
      [] module = "align_object_to_cursor" -> align_object_to_cursor_classes
      [] module = "set_pivot_to_base" -> set_pivot_to_base_classes
      [] module = "set_pivot_to_cursor" -> set_pivot_to_cursor_classes
      [] module = "align_view_to_cursor" -> align_view_to_cursor_classes
      [] module = "ui" -> ui_classes

\* The statements of register(), in its order: the modules' register() and
\* register_keymaps().
RegisterSteps ==
    <<"preferences", "properties", "batch_operations", "align_cursor_to_normal",
      "align_object_to_cursor", "set_pivot_to_base", "set_pivot_to_cursor",
      "align_view_to_cursor", "ui", "keymaps">>

\* unregister() in the order of register().
UnregisterSteps_as_registered == RegisterSteps

\* The statements of unregister(), in its order: unregister_keymaps() and
\* the modules' unregister().
UnregisterSteps ==
    <<"keymaps", "ui", "align_view_to_cursor", "set_pivot_to_cursor",
      "set_pivot_to_base", "align_object_to_cursor", "align_cursor_to_normal",
      "batch_operations", "properties", "preferences">>

RECURSIVE RegisterEach(_, _)
\* The module registers of the steps, one after the other.
RegisterEach(reg, steps) ==
    IF steps = <<>> THEN reg
    ELSE IF Head(steps) = "keymaps" THEN RegisterEach(reg, Tail(steps))
    ELSE RegisterEach(ModuleRegister(reg, ModuleClasses(Head(steps))), Tail(steps))

RECURSIVE UnregisterEach(_, _)
\* The module unregisters of the steps, one after the other.
UnregisterEach(reg, steps) ==
    IF steps = <<>> THEN reg
    ELSE IF Head(steps) = "keymaps" THEN UnregisterEach(reg, Tail(steps))
    ELSE UnregisterEach(ModuleUnregister(reg, ModuleClasses(Head(steps))), Tail(steps))

\* The module registers of register(), in its order.
RegisterModules(reg) == RegisterEach(reg, RegisterSteps)

\* The module unregisters of unregister(), in its order.
UnregisterModules(reg) == UnregisterEach(reg, UnregisterSteps)

\* The steps as entries of setup_log.
LogOf(call, steps) == [i \in 1..Len(steps) |-> [call |-> call, step |-> steps[i]]]

\* The bl_idnames of the operator classes that are registered.
RegisteredOperators ==
    {registered[i].bl_idname : i \in 1..Len(registered)} \ {None}

\* A keymap item with alt and shift: its keymap, operator idname and key.
KeymapItem(keymap, idname, type) == [keymap |-> keymap, idname |-> idname, type |-> type]

\* The four items register_keymaps() makes.
KeymapItems ==
    <<KeymapItem("Mesh", "mesh.align_cursor_to_normal", "C"),
      KeymapItem("Object Mode", "object.align_object_to_cursor", "A"),
      KeymapItem("Object Mode", "object.set_pivot_to_base", "B"),
      KeymapItem("Object Mode", "object.set_pivot_to_cursor", "P")>>

\* register_keymaps(): the list afterwards.
register_keymaps(keymaps, kc) ==
    IF kc THEN keymaps \o KeymapItems ELSE keymaps

\* No shortcut pressed yet.
NoKey == [type |-> None, idname |-> None, invoked |-> None]

\* Steps of the registry leave the scene and the property values alone.
RegistryFrame(name) ==
    /\ op' = name
    /\ UNCHANGED <<sceneVars, pivotVars, meshVars, storeVars, read_props, shown_props,
                   pre, ret, report, status, ref>>

\* The import of the package.  get_preferences is annotated with
\* preferences.PivotierPreferences, a name preferences.py does not define: an
\* interpreter that evaluates annotations at the def raises AttributeError,
\* one that defers them loads the package.
Import ==
    /\ pc = "unloaded"
    /\ \E deferred \in BOOLEAN :
         pc' = IF deferred THEN "idle" ELSE "import_failed"
    /\ RegistryFrame("import")
    /\ UNCHANGED <<registered, rna_props, addon_keymaps, enable_keymaps, keyconfig,
                   mode, panel_buttons, key_event, setup_log, nedits, ncalls>>

\* register()
Register ==
    /\ pc = "idle"
    /\ ncalls < MaxCalls
    /\ LET reg == RegisterModules(Registry(registered, rna_props)) IN
         /\ registered' = reg.classes
         /\ rna_props' = reg.props
    /\ addon_keymaps' = register_keymaps(addon_keymaps, keyconfig)
    /\ pc' = "registered"
    /\ ncalls' = ncalls + 1
    /\ setup_log' = setup_log \o LogOf("register", RegisterSteps)
    /\ RegistryFrame("register")
    /\ UNCHANGED <<enable_keymaps, keyconfig, mode, panel_buttons, key_event, nedits>>

\* unregister(): unregister_keymaps() removes each item and clears the list.
\* The panel goes with its class.
Unregister ==
    /\ pc = "registered"
    /\ addon_keymaps' = <<>>
    /\ LET reg == UnregisterModules(Registry(registered, rna_props)) IN
         /\ registered' = reg.classes
         /\ rna_props' = reg.props
    /\ pc' = "idle"
    /\ panel_buttons' = <<>>
    /\ key_event' = NoKey
    /\ setup_log' = setup_log \o LogOf("unregister", UnregisterSteps)
    /\ RegistryFrame("unregister")
    /\ UNCHANGED <<enable_keymaps, keyconfig, mode, nedits, ncalls>>

\* The user sets enable_keymaps in the preferences (col.prop in
\* AlignToolkitPreferences.draw).  The property has no update callback.
EditEnableKeymaps ==
    /\ pc = "registered"
    /\ keyconfig
    /\ nedits < MaxEdits
    /\ enable_keymaps' = ~enable_keymaps
    /\ nedits' = nedits + 1
    /\ RegistryFrame("edit_preferences")
    /\ UNCHANGED <<pc, registered, rna_props, addon_keymaps, keyconfig, mode,
                   panel_buttons, key_event, setup_log, ncalls>>

\* The user goes from object mode to edit mode or back.
ToggleMode ==
    /\ keyconfig
    /\ mode' = IF mode = "OBJECT" THEN "EDIT_MESH" ELSE "OBJECT"
    /\ RegistryFrame("toggle_mode")
    /\ UNCHANGED <<pc, registered, rna_props, addon_keymaps, enable_keymaps, keyconfig,
                   panel_buttons, key_event, setup_log, nedits, ncalls>>

\* The operator buttons of VIEW3D_PT_pivotier.draw, in its order.
PanelOperators(context_mode) ==
    (IF context_mode = "OBJECT" THEN <<"object.batch_align">> ELSE <<>>)
    \o <<"object.set_pivot_to_base", "object.set_pivot_to_cursor",
         "object.invert_pivot_z_axis", "view3d.align_cursor_to_normal",
         "object.align_to_cursor", "view3d.align_view_to_cursor">>

\* VIEW3D_PT_pivotier.draw
DrawPanel ==
    /\ pc = "registered"
    /\ keyconfig
    /\ panel_buttons' = PanelOperators(mode)
    /\ RegistryFrame("draw_panel")
    /\ UNCHANGED <<pc, registered, rna_props, addon_keymaps, enable_keymaps, keyconfig,
                   mode, key_event, setup_log, nedits, ncalls>>

\* The keymap that is live in a mode, of the two the addon adds items to.
ActiveKeymap(context_mode) == IF context_mode = "OBJECT" THEN "Object Mode" ELSE "Mesh"

\* The user presses Alt+Shift and a key: the first item of the live keymap
\* with that key names the operator, which runs when it is registered.
PressKey ==
    /\ pc = "registered"
    /\ keyconfig
    /\ \E type \in {KeymapItems[i].type : i \in 1..Len(KeymapItems)} :
         LET items == SelectSeq(addon_keymaps,
                                LAMBDA kmi : kmi.type = type
                                             /\ kmi.keymap = ActiveKeymap(mode))
             idname == IF items = <<>> THEN None ELSE items[1].idname
         IN  key_event' = [type |-> type, idname |-> idname,
                           invoked |-> IF idname \in RegisteredOperators
                                       THEN idname ELSE None]
    /\ RegistryFrame("press_key")
    /\ UNCHANGED <<pc, registered, rna_props, addon_keymaps, enable_keymaps, keyconfig,
                   mode, panel_buttons, setup_log, nedits, ncalls>>


(***************************************************************************)
(* The panels' property fields                                             *)
(***************************************************************************)
\* The values one edit of a field can give a record of the set: those that
\* differ from it in exactly one field.
OneFieldEdits(value, values) ==
    {v \in values : Cardinality({f \in DOMAIN value : v[f] # value[f]}) = 1}

\* The property group wm.pivotier.pivot_to_base.
PivotToBaseProperties == [ignore_rotation : BOOLEAN, use_lowest_vertex : BOOLEAN]

\* An edit of a panel leaves all but the property values alone.
EditFrame(name) ==
    /\ nedits < MaxEdits
    /\ nedits' = nedits + 1
    /\ op' = name
    /\ UNCHANGED <<sceneVars, pivotVars, meshVars, read_props, shown_props, regVars,
                   pre, ret, report, status, ref, ncalls>>

\* The user edits a field of the main panel (VIEW3D_PT_pivotier.draw): the
\* fields of wm.pivotier.batch_align and of wm.pivotier.pivot_to_base.
EditPivotierPanel ==
    /\ pc = "registered"
    /\ \/ /\ wm_batch' \in OneFieldEdits(wm_batch, BatchAlignmentSettings)
          /\ UNCHANGED <<scene_batch, scene_pivot, wm_pivot>>
       \/ /\ wm_pivot' \in OneFieldEdits(wm_pivot, PivotToBaseProperties)
          /\ UNCHANGED <<scene_batch, scene_pivot, wm_batch>>
    /\ EditFrame("edit_pivotier_panel")

\* The user edits a field of VIEW3D_PT_batch_align_panel: the fields of
\* scene.batch_align_settings.
EditBatchAlignPanel ==
    /\ pc = "registered"
    /\ scene_batch' \in OneFieldEdits(scene_batch, BatchAlignmentSettings)
    /\ UNCHANGED <<scene_pivot, wm_batch, wm_pivot>>
    /\ EditFrame("edit_batch_align_panel")

\* The user edits a field of VIEW3D_PT_set_pivot_to_base_panel: the fields
\* of scene.set_pivot_to_base_props, drawn in object mode with a mesh
\* selected.
EditSetPivotToBasePanel ==
    /\ pc = "registered"
    /\ mode = "OBJECT"
    /\ \E o \in selected_objects : ObjType(o) = "MESH"
    /\ scene_pivot' \in OneFieldEdits(scene_pivot, SetPivotToBaseProperties)
    /\ UNCHANGED <<scene_batch, wm_batch, wm_pivot>>
    /\ EditFrame("edit_set_pivot_to_base_panel")


(***************************************************************************)
(* The alignment operators on a scene                                      *)
(***************************************************************************)
\* The vertices of each mesh, in local coordinates.
MeshData ==
    [o \in Objects |->
       CASE o = "Wedge" -> {Vec(-1, 0, -2), Vec(3, 0, -2), Vec(1, 2, -2), Vec(1, 1, 4)}
         [] o = "Tetra" -> {Vec(0, 0, 0), Vec(2, 0, 0), Vec(0, 4, 0), Vec(0, 0, 2)}
         [] OTHER -> {}]

InitSelection ==
    /\ select \in [Objects -> BOOLEAN]
    /\ active \in Objects \cup {None}
    /\ undo_stack = <<>>

InitScene ==
    /\ \E p \in [Objects -> Poses] :
         /\ location = [o \in Objects |-> p[o].loc]
         /\ rotation_euler = [o \in Objects |-> p[o].rot]
    /\ InitSelection
    /\ \E c \in CursorPoses :
         /\ cursor_location = c.loc
         /\ cursor_rotation = c.rot
    /\ scale = [o \in Objects |-> <<1, 1, 1>>]
    /\ mesh_verts = MeshData
    /\ origin_log = <<>>
    /\ base_log = <<>>

\* The cursor's matrix: its location and the matrix of its rotation.
CursorMatrix == [loc |-> cursor_location, lin |-> EulerToMatrix(cursor_rotation)]

\* No mesh is in edit mode.
InitNoEdit ==
    /\ edit_object = None
    /\ bm_select = [faces |-> {}, edges |-> {}, verts |-> {}]
    /\ cursor_matrix = CursorMatrix
    /\ matrix_writes = 0
    /\ last_alignment = NoAlignment

\* The defaults of the property groups.
PivotDefaults == [ignore_rotation |-> FALSE, use_geometry |-> FALSE]
WmPivotDefaults == [ignore_rotation |-> FALSE, use_lowest_vertex |-> FALSE]
NoProps == [none |-> TRUE]

InitProps ==
    /\ scene_batch = BatchDefaults
    /\ scene_pivot = PivotDefaults
    /\ wm_batch = BatchDefaults
    /\ wm_pivot = WmPivotDefaults
    /\ read_props = NoProps
    /\ shown_props = NoProps
    /\ nedits = 0

\* The addon registered in a session with a window, nothing drawn or
\* pressed yet.
InitRegistered ==
    /\ pc = "registered"
    /\ LET reg == RegisterModules(Registry(<<>>, {})) IN
         /\ registered = reg.classes
         /\ rna_props = reg.props
    /\ keyconfig = TRUE
    /\ addon_keymaps = register_keymaps(<<>>, keyconfig)
    /\ enable_keymaps = TRUE
    /\ panel_buttons = <<>>
    /\ key_event = NoKey
    /\ setup_log = LogOf("register", RegisterSteps)

InitCall ==
    /\ pre = Snapshot
    /\ op = None
    /\ ret = None
    /\ report = NoReport
    /\ status = None
    /\ ref = NoRef
    /\ ncalls = 0

InitAlign ==
    /\ InitScene
    /\ InitNoEdit
    /\ scene_batch \in BatchAlignmentSettings
    /\ scene_pivot = PivotDefaults
    /\ wm_batch = BatchDefaults
    /\ wm_pivot = WmPivotDefaults
    /\ read_props = NoProps
    /\ shown_props = NoProps
    /\ nedits = 0
    /\ InitRegistered
    /\ mode = "OBJECT"
    /\ InitCall

NextAlign ==
    \/ BatchAlignExecute
    \/ AlignObjectToCursorExecute

SpecAlign == InitAlign /\ [][NextAlign]_vars

(***************************************************************************)
(* Set Pivot to Base on a scene of rotated and scaled meshes               *)
(***************************************************************************)
\* The transforms a mesh starts with: rotation_euler in quarter turns.
PivotPoses ==
    { [loc |-> Vec(1, 2, 3), rot |-> Vec(0, 0, 0), scale |-> <<1, 1, 1>>],
      [loc |-> Vec(5, 7, 4), rot |-> Vec(1, 0, 3), scale |-> <<2, 1, 1>>],
      [loc |-> Vec(0, 0, 0), rot |-> Vec(0, 0, 0), scale |-> <<1, 1, -1>>] }

InitPivot ==
    /\ \E p \in [Objects -> PivotPoses] :
         /\ p["Empty"].scale = <<1, 1, 1>> /\ p["Empty"].rot = Zero
         /\ location = [o \in Objects |-> p[o].loc]
         /\ rotation_euler = [o \in Objects |-> p[o].rot]
         /\ scale = [o \in Objects |-> p[o].scale]
    /\ InitSelection
    /\ cursor_location = Vec(9, 8, 6)
    /\ cursor_rotation = Vec(3, 2, 1)
    /\ mesh_verts = MeshData
    /\ origin_log = <<>>
    /\ base_log = <<>>
    /\ InitNoEdit
    /\ scene_pivot \in SetPivotToBaseProperties
    /\ scene_batch = BatchDefaults
    /\ wm_batch = BatchDefaults
    /\ wm_pivot = WmPivotDefaults
    /\ read_props = NoProps
    /\ shown_props = NoProps
    /\ nedits = 0
    /\ InitRegistered
    /\ mode = "OBJECT"
    /\ InitCall

NextPivot ==
    \/ SetPivotToBaseInvoke
    \/ SetPivotToCursorCall

SpecPivot == InitPivot /\ [][NextPivot]_vars


(***************************************************************************)
(* Align Cursor to Normal on a mesh in edit mode                           *)
(***************************************************************************)
\* The faces, edges and vertices of the edit mesh, tagged.
BMElements ==
    ({"face"} \X BMFaces) \cup ({"edge"} \X BMEdges) \cup ({"vert"} \X BMVerts)

\* The subsets of S of at most n elements.
RECURSIVE SubsetsUpTo(_, _)
SubsetsUpTo(S, n) ==
    IF n = 0 THEN {{}}
    ELSE LET smaller == SubsetsUpTo(S, n - 1)
         IN  smaller \cup {T \cup {x} : T \in smaller, x \in S}

InitMesh ==
    /\ location = [o \in Objects |-> Vec(1, 2, 3)]
    /\ \E p \in PivotPoses :
         /\ rotation_euler = [o \in Objects |-> p.rot]
         /\ scale = [o \in Objects |-> p.scale]
    /\ select = [o \in Objects |-> o = "Wedge"]
    /\ active = "Wedge"
    /\ undo_stack = <<>>
    /\ cursor_location = Vec(9, 8, 6)
    /\ cursor_rotation = Vec(0, 0, 1)
    /\ cursor_matrix = CursorMatrix
    /\ matrix_writes = 0
    /\ last_alignment = NoAlignment
    /\ mesh_verts = [o \in Objects |->
                       IF o = "Wedge" THEN {VertCo[v] : v \in BMVerts} ELSE MeshData[o]]
    /\ origin_log = <<>>
    /\ base_log = <<>>
    /\ edit_object \in {None, "Wedge"}
    /\ \E sel \in SubsetsUpTo(BMElements, MaxSelected) :
         bm_select = [faces |-> {x[2] : x \in {y \in sel : y[1] = "face"}},
                      edges |-> {x[2] : x \in {y \in sel : y[1] = "edge"}},
                      verts |-> {x[2] : x \in {y \in sel : y[1] = "vert"}}]
    /\ InitProps
    /\ InitRegistered
    /\ mode = IF edit_object = None THEN "OBJECT" ELSE "EDIT_MESH"
    /\ InitCall

NextMesh ==
    \/ AlignCursorToNormalExecute

SpecMesh == InitMesh /\ [][NextMesh]_vars


(***************************************************************************)
(* The addon from import to unregister                                     *)
(***************************************************************************)
\* A scene with the two meshes selected and the first of them active.
InitFixedScene ==
    /\ location = [o \in Objects |->
                     IF o = "Wedge" THEN Vec(1, 2, 3) ELSE Vec(5, 7, 4)]
    /\ rotation_euler = [o \in Objects |->
                           IF o = "Wedge" THEN Vec(0, 1, 2) ELSE Vec(1, 0, 3)]
    /\ scale = [o \in Objects |-> IF o = "Tetra" THEN <<2, 1, 1>> ELSE <<1, 1, 1>>]
    /\ select = [o \in Objects |-> ObjType(o) = "MESH"]
    /\ active = "Wedge"
    /\ undo_stack = <<>>
    /\ cursor_location = Vec(9, 8, 6)
    /\ cursor_rotation = Vec(3, 2, 1)
    /\ mesh_verts = MeshData
    /\ origin_log = <<>>
    /\ base_log = <<>>

InitReg ==
    /\ InitFixedScene
    /\ InitNoEdit
    /\ InitProps
    /\ pc = "unloaded"
    /\ registered = <<>>
    /\ rna_props = {}
    /\ addon_keymaps = <<>>
    /\ enable_keymaps = TRUE
    /\ keyconfig \in BOOLEAN
    /\ mode = "OBJECT"
    /\ panel_buttons = <<>>
    /\ key_event = NoKey
    /\ setup_log = <<>>
    /\ InitCall

NextReg ==
    \/ Import
    \/ Register
    \/ Unregister
    \/ EditEnableKeymaps
    \/ ToggleMode
    \/ DrawPanel
    \/ PressKey

SpecReg == InitReg /\ [][NextReg]_vars

(***************************************************************************)
(* The panels' fields and the operators that read them                     *)
(***************************************************************************)
InitPanels ==
    /\ InitFixedScene
    /\ InitNoEdit
    /\ InitProps
    /\ InitRegistered
    /\ mode = "OBJECT"
    /\ InitCall

NextPanels ==
    \/ EditPivotierPanel
    \/ EditBatchAlignPanel
    \/ EditSetPivotToBasePanel
    \/ BatchAlignExecute
    \/ SetPivotToBaseInvoke

SpecPanels == InitPanels /\ [][NextPanels]_vars


(***************************************************************************)
(* get_base_center_world on turned, scaled and mirrored meshes             *)
(***************************************************************************)
\* rotation_euler of a mesh, in quarter turns.
BaseRotations == {Vec(0, 0, 0), Vec(1, 0, 0), Vec(0, 1, 2), Vec(1, 0, 3)}
\* scale of a mesh.
BaseScales == {<<1, 1, 1>>, <<2, 1, 3>>, <<-1, 1, 1>>, <<1, 1, -1>>, <<-2, 3, -1>>}

InitBase ==
    /\ location = [o \in Objects |-> Vec(5, 7, 4)]
    /\ \E r \in BaseRotations, sc \in BaseScales :
         /\ rotation_euler = [o \in Objects |-> IF ObjType(o) = "MESH" THEN r ELSE Zero]
         /\ scale = [o \in Objects |-> IF ObjType(o) = "MESH" THEN sc ELSE <<1, 1, 1>>]
    /\ select = [o \in Objects |-> ObjType(o) = "MESH"]
    /\ active = "Wedge"
    /\ undo_stack = <<>>
    /\ cursor_location = Vec(9, 8, 6)
    /\ cursor_rotation = Vec(3, 2, 1)
    /\ mesh_verts = MeshData
    /\ origin_log = <<>>
    /\ base_log = <<>>
    /\ InitNoEdit
    /\ InitProps
    /\ InitRegistered
    /\ mode = "OBJECT"
    /\ InitCall

NextBase ==
    \/ GetBaseCenterWorldCall

SpecBase == InitBase /\ [][NextBase]_vars


(***************************************************************************)
(* Properties of the alignment operators                                   *)
(***************************************************************************)
\* The objects selected on entry to the last call.
PreSelected == {o \in Objects : pre.select[o]}
\* The last call was batch_align_objects and it returned None.
BatchAligned == op = "batch_align" /\ ret = None
\* The object was the reference the loop passed over.
WasSkipped(o) == o = pre.active /\ scene_batch.relative_to = "ACTIVE"
\* The cursor is as it was on entry to the last call.
CursorKept ==
    /\ cursor_location = pre.cursor_location
    /\ cursor_rotation = pre.cursor_rotation
\* Every object's transform is as it was on entry to the last call.
TransformsKept ==
    /\ location = pre.location
    /\ rotation_euler = pre.rotation_euler

\* C2: after batch_align_objects returns None, every selected object that
\* is not skipped as the reference has, on each axis whose flag is set, the
\* reference's location (mode LOCATION or BOTH) and the reference's rotation
\* (mode ROTATION or BOTH); every other component of it, every unselected
\* object and the 3D cursor are as they were on entry.
C2_BatchAlignFrame ==
    BatchAligned =>
      /\ \A o \in PreSelected :
           ~WasSkipped(o) =>
             \A i \in Axes :
               /\ location[o][i] =
                    IF scene_batch.align_mode \in {"LOCATION", "BOTH"}
                       /\ AxisFlag(scene_batch, i)
                    THEN ref.loc[i] ELSE pre.location[o][i]
               /\ rotation_euler[o][i] =
                    IF scene_batch.align_mode \in {"ROTATION", "BOTH"}
                       /\ AxisFlag(scene_batch, i)
                    THEN ref.rot[i] ELSE pre.rotation_euler[o][i]
      /\ \A o \in Objects \ PreSelected :
           /\ location[o] = pre.location[o]
           /\ rotation_euler[o] = pre.rotation_euler[o]
      /\ CursorKept

\* A call in mode LOCATION with only align_x set moved a selected object
\* along x and left its y; its rotation differs from the reference's.
C2_Witness ==
    /\ BatchAligned
    /\ scene_batch.align_mode = "LOCATION"
    /\ scene_batch.align_x /\ ~scene_batch.align_y /\ ~scene_batch.align_z
    /\ \E o \in PreSelected :
         /\ ~WasSkipped(o)
         /\ location[o][1] # pre.location[o][1]
         /\ location[o][2] # ref.loc[2]
         /\ rotation_euler[o] # ref.rot

\* C3: with relative_to ACTIVE, batch_align_objects leaves the active
\* object's location and rotation as they were, and what it writes to the
\* other selected objects are the active object's location and rotation as
\* they were on entry.
C3_ActiveReference ==
    (op = "batch_align" /\ scene_batch.relative_to = "ACTIVE"
       /\ pre.active # None) =>
      /\ location[pre.active] = pre.location[pre.active]
      /\ rotation_euler[pre.active] = pre.rotation_euler[pre.active]
      /\ ret = None =>
           \A o \in PreSelected \ {pre.active} : \A i \in Axes :
             /\ (scene_batch.align_mode \in {"LOCATION", "BOTH"}
                   /\ AxisFlag(scene_batch, i))
                  => location[o][i] = pre.location[pre.active][i]
             /\ (scene_batch.align_mode \in {"ROTATION", "BOTH"}
                   /\ AxisFlag(scene_batch, i))
                  => rotation_euler[o][i] = pre.rotation_euler[pre.active][i]

\* A call relative to a selected active object moved another selected
\* object onto it.
C3_Witness ==
    /\ BatchAligned
    /\ scene_batch.relative_to = "ACTIVE"
    /\ pre.active \in PreSelected
    /\ \E o \in PreSelected \ {pre.active} :
         /\ pre.location[o] # pre.location[pre.active]
         /\ location[o] = location[pre.active]
         /\ rotation_euler[o] = rotation_euler[pre.active]

\* C4: with relative_to AVERAGE, the reference batch_align_objects uses is
\* the average of the locations, and of the Euler angles, of all the
\* selected objects, whatever their types.
C4_AverageOfSelection ==
    (BatchAligned /\ scene_batch.relative_to = "AVERAGE") =>
      \A i \in Axes :
        /\ ref.loc[i] * Cardinality(PreSelected)
             = VSum(PreSelected, pre.location)[i]
        /\ ref.rot[i] * Cardinality(PreSelected)
             = VSum(PreSelected, pre.rotation_euler)[i]

\* The last call was batch_align_objects, it changed no transform, pushed
\* no undo step, and the operator reported message as an ERROR and returned
\* CANCELLED.
BatchAlignRefused(message) ==
    /\ ret = message
    /\ TransformsKept
    /\ Len(undo_stack) = pre.undo_len
    /\ report = Report("ERROR", message, 0)
    /\ status = "CANCELLED"

\* C5, as stated: "No objects selected" for an empty selection, "No active
\* object selected" whenever relative_to is ACTIVE and there is no active
\* object; either way nothing changes, no undo step is pushed, and the
\* operator reports an ERROR and returns CANCELLED.
C5_AsStated ==
    op = "batch_align" =>
      /\ PreSelected = {} => BatchAlignRefused("No objects selected")
      /\ (scene_batch.relative_to = "ACTIVE" /\ pre.active = None)
           => BatchAlignRefused("No active object selected")

\* C5, amended: "No objects selected" for an empty selection, "No active
\* object selected" when the selection is not empty, relative_to is ACTIVE
\* and there is no active object; either way nothing changes, no undo step
\* is pushed, and the operator reports an ERROR and returns CANCELLED.
C5_ErrorReturns ==
    op = "batch_align" =>
      /\ PreSelected = {} => BatchAlignRefused("No objects selected")
      /\ (PreSelected # {} /\ scene_batch.relative_to = "ACTIVE"
            /\ pre.active = None)
           => BatchAlignRefused("No active object selected")

\* A call with objects selected and none active, relative to ACTIVE, was
\* refused.
C5_Witness ==
    /\ op = "batch_align"
    /\ PreSelected # {}
    /\ pre.active = None
    /\ ret = "No active object selected"
    /\ status = "CANCELLED"

\* C6: after align_object_to_cursor(objects) returns None for a non-empty
\* set, every object of the set is at the cursor's location with the
\* cursor's rotation, the cursor is as it was and the objects outside the
\* set are as they were; with an empty set it returns "No objects selected"
\* and changes nothing.
C6_AlignObjectToCursor ==
    op = "align_object_to_cursor" =>
      /\ PreSelected # {} =>
           /\ ret = None
           /\ \A o \in PreSelected :
                HasTransform(o) =>
                  /\ location[o] = pre.cursor_location
                  /\ rotation_euler[o] = pre.cursor_rotation
           /\ \A o \in Objects \ PreSelected :
                /\ location[o] = pre.location[o]
                /\ rotation_euler[o] = pre.rotation_euler[o]
           /\ CursorKept
      /\ PreSelected = {} =>
           /\ ret = "No objects selected"
           /\ TransformsKept
           /\ CursorKept
           /\ select = pre.select
           /\ active = pre.active
           /\ Len(undo_stack) = pre.undo_len

\* A call moved a selected object to the cursor and left an unselected one,
\* which was elsewhere, where it was.
C6_Witness ==
    /\ op = "align_object_to_cursor"
    /\ ret = None
    /\ \E o \in PreSelected :
         /\ pre.location[o] # pre.cursor_location
         /\ pre.rotation_euler[o] # pre.cursor_rotation
         /\ location[o] = cursor_location
    /\ \E o \in Objects \ PreSelected : location[o] # cursor_location

(***************************************************************************)
(* Properties of Set Pivot to Base                                         *)
(***************************************************************************)
\* The last call was set_pivot_to_base with a list that was not empty.
PivotCalled == op = "set_pivot_to_base" /\ PreSelected # {}

\* C1: after set_pivot_to_base is called with a list that is not empty and
\* finishes, by returning or by raising, the 3D cursor's location and
\* rotation, every object's selection flag and the active object are as
\* they were before the call, also when there was no active object.
C1_RestoresContext ==
    PivotCalled =>
      /\ CursorKept
      /\ select = pre.select
      /\ active = pre.active

\* What the code does restore: the cursor and the selection in every case,
\* the active object when there was one.
PivotRestoresWhenActive ==
    PivotCalled =>
      /\ CursorKept
      /\ select = pre.select
      /\ pre.active # None => active = pre.active

(***************************************************************************)
(* Properties of Align Cursor to Normal                                    *)
(***************************************************************************)
CursorNormalCalled == op = "align_cursor_to_normal"

\* The call was refused with the message: the cursor's matrix was not
\* written, the operator reported the error and returned CANCELLED.
CursorNormalRefused(message) ==
    /\ ret = message
    /\ matrix_writes = 0
    /\ cursor_matrix = pre.cursor_matrix
    /\ report = Report("ERROR", message, 0)
    /\ status = "CANCELLED"

\* The cursor's matrix was written once, from the alignment data, and the
\* operator returned FINISHED.
CursorNormalFrom(data) ==
    /\ ret = None
    /\ matrix_writes = 1
    /\ cursor_matrix = AlignmentMatrix(matrix_world(EditObject), data)
    /\ report = NoReport
    /\ status = "FINISHED"

\* C7: align_cursor_to_normal takes its source by strict priority, the
\* selected faces if there are any, else the selected edges, else the
\* selected vertices; with no edit object it returns "No object in edit
\* mode" and with nothing selected "No valid selection found", and then the
\* cursor's matrix is unchanged and the operator returns CANCELLED; in
\* every other case the matrix is written exactly once and the operator
\* returns FINISHED.
C7_SourcePriority ==
    CursorNormalCalled =>
      IF edit_object = None THEN CursorNormalRefused("No object in edit mode")
      ELSE IF bm_select.faces # {} THEN CursorNormalFrom(FaceAlignment(bm_select.faces))
      ELSE IF bm_select.edges # {} THEN CursorNormalFrom(EdgeAlignment(bm_select.edges))
      ELSE IF bm_select.verts # {} THEN CursorNormalFrom(VertAlignment(bm_select.verts))
      ELSE CursorNormalRefused("No valid selection found")

\* A face, an edge and a vertex were selected, the call finished, and the
\* matrix from the faces is neither the one the edges nor the one the
\* vertices would have given, nor the matrix before the call.
C7_Witness ==
    /\ CursorNormalCalled
    /\ status = "FINISHED"
    /\ bm_select.faces # {} /\ bm_select.edges # {} /\ bm_select.verts # {}
    /\ cursor_matrix # pre.cursor_matrix
    /\ cursor_matrix # AlignmentMatrix(matrix_world(EditObject), EdgeAlignment(bm_select.edges))
    /\ cursor_matrix # AlignmentMatrix(matrix_world(EditObject), VertAlignment(bm_select.verts))

(***************************************************************************)
(* Properties of the registry                                              *)
(***************************************************************************)
\* The operator each shortcut is for: the comments of register_keymaps and
\* the labels of the preferences.
ShortcutOperator(type) ==
    CASE type = "C" -> "view3d.align_cursor_to_normal"
      [] type = "A" -> "object.align_object_to_cursor"
      [] type = "B" -> "object.set_pivot_to_base"
      [] type = "P" -> "object.set_pivot_to_cursor"

\* C8: each shortcut the addon registers and each operator button the main
\* panel draws names an operator the addon registers: the item of each key
\* names the operator the key is for, and every idname of the keymap items
\* and of the panel's buttons is the bl_idname of a registered operator.
C8_IdnamesRegistered ==
    pc = "registered" =>
      /\ \A i \in 1..Len(addon_keymaps) :
           /\ addon_keymaps[i].idname \in RegisteredOperators
           /\ addon_keymaps[i].idname = ShortcutOperator(addon_keymaps[i].type)
      /\ \A i \in 1..Len(panel_buttons) : panel_buttons[i] \in RegisteredOperators
      /\ key_event.idname # None => key_event.invoked = ShortcutOperator(key_event.type)

\* C9: the shortcuts are enabled exactly when enable_keymaps is true: after
\* a register() with enable_keymaps false no keymap item of the addon is
\* registered.
C9_KeymapsFollowPreference ==
    (pc = "registered" /\ op = "register" /\ ~enable_keymaps) => addon_keymaps = <<>>

(***************************************************************************)
(* Properties of the panels' fields                                        *)
(***************************************************************************)
\* C10: the values the main panel shows and edits are the values
\* object.batch_align and object.set_pivot_to_base read when they run.
C10_PanelValuesRead ==
    /\ op = "batch_align" => read_props = shown_props
    /\ op = "set_pivot_to_base" =>
         /\ read_props.ignore_rotation = shown_props.ignore_rotation
         /\ read_props.use_geometry = shown_props.use_lowest_vertex

(***************************************************************************)
(* Properties of set_pivot_to_cursor                                       *)
(***************************************************************************)
\* The origin_set calls of the last call that found object o the only
\* selected object and the active one.
OriginSetCallsFor(o) ==
    {i \in 1..Len(origin_log) :
       origin_log[i].selected = {o} /\ origin_log[i].active = o}

\* C11: set_pivot_to_cursor sets the pivot to the cursor for the selected
\* objects: for every mesh that was selected when the call began,
\* origin_set is invoked exactly once while that mesh is the only selected
\* object and the active one.
C11_OriginSetPerSelectedMesh ==
    (op = "set_pivot_to_cursor" /\ ret = None) =>
      \A o \in PreSelected :
        ObjType(o) = "MESH" => Cardinality(OriginSetCallsFor(o)) = 1

\* What the code does: the loop runs over the selection as it is after the
\* deselect, so origin_set is never invoked and no origin moves.
SetPivotToCursorDoesNothing ==
    op = "set_pivot_to_cursor" =>
      /\ origin_log = <<>>
      /\ location = pre.location
      /\ select = pre.select

(***************************************************************************)
(* Properties of the order of register() and unregister()                  *)
(***************************************************************************)
\* The place of the last entry of setup_log among the first k with the
\* call and step, 0 when there is none.
LastEntry(call, step, k) ==
    Max({0} \cup {i \in 1..k : setup_log[i] = [call |-> call, step |-> step]})

\* The step is set up after the first k entries of setup_log.
SetUpAfter(step, k) == LastEntry("register", step, k) > LastEntry("unregister", step, k)

\* Step a was set up before step b by the register() that last set up b,
\* as of the first k entries of setup_log.
SetUpBefore(a, b, k) ==
    LET q == LastEntry("register", b, k)
    IN  \E p \in 1..q :
          /\ setup_log[p] = [call |-> "register", step |-> a]
          /\ p < q
          /\ \A n \in p..q : setup_log[n].call = "register"

\* The steps that setup_log names.
LoggedSteps == {setup_log[i].step : i \in 1..Len(setup_log)}

\* The entries i..j of setup_log, as steps.
LoggedRun(i, j) == [n \in 1..(j - i + 1) |-> setup_log[i + n - 1].step]

\* The sequence backwards.
Reversed(seq) == [n \in 1..Len(seq) |-> seq[Len(seq) + 1 - n]]

\* Entries i..j of setup_log are one run: the entries of one call of
\* register() or of unregister().
IsRun(i, j) ==
    /\ i <= j
    /\ i = 1 \/ setup_log[i - 1].call # setup_log[i].call
    /\ j = Len(setup_log) \/ setup_log[j + 1].call # setup_log[j].call
    /\ \A n \in i..j : setup_log[n].call = setup_log[i].call

\* In the run i..j the UI module comes after every other module when the
\* run registers, and before every other module when it unregisters.
UiOutermost(i, j) ==
    \A n, m \in i..j :
      (setup_log[n].step = "ui" /\ setup_log[m].step \notin {"ui", "keymaps"})
        => IF setup_log[i].call = "register" THEN m < n ELSE n < m

\* C12: register() registers the UI module after every other module and
\* unregister() unregisters it before every other module; unregister()
\* tears down keymaps and modules in exactly the reverse of the order in
\* which register() set them up, so at no point is a step set up while a
\* step that was set up before it is already torn down.
C12_ReverseOrder ==
    /\ \A i, j \in 1..Len(setup_log) : IsRun(i, j) => UiOutermost(i, j)
    /\ \A h, i, j \in 1..Len(setup_log) :
         (IsRun(h, i) /\ IsRun(i + 1, j) /\ setup_log[j].call = "unregister")
           => LoggedRun(i + 1, j) = Reversed(LoggedRun(h, i))
    /\ \A k \in 0..Len(setup_log) : \A a, b \in LoggedSteps :
         (SetUpAfter(b, k) /\ SetUpBefore(a, b, k)) => SetUpAfter(a, k)

\* register() and unregister() have both run, and between them the UI
\* module was set up with every module registered before it.
C12_Witness ==
    /\ pc = "idle"
    /\ op = "unregister"
    /\ \E h, i, j \in 1..Len(setup_log) :
         /\ IsRun(h, i) /\ IsRun(i + 1, j)
         /\ setup_log[j].call = "unregister"
         /\ \E n \in h..i : setup_log[n].step = "ui"
         /\ \E n \in (i + 1)..j : setup_log[n].step = "keymaps"
         /\ j - i > 2
    /\ registered = <<>>

(***************************************************************************)
(* Properties of the undo steps                                            *)
(***************************************************************************)
\* The message each function pushes its undo step with.
UndoMessage(call) ==
    IF call = "batch_align" THEN "Batch Align Objects" ELSE "Align Objects to Cursor"

\* C13: align_object_to_cursor and batch_align_objects push exactly one
\* undo step per successful call, before the first transform is modified,
\* so that the step holds the transforms on entry; a call that returns an
\* error message pushes none.
C13_OneUndoStepFirst ==
    op \in {"batch_align", "align_object_to_cursor"} =>
      IF ret = None
      THEN /\ Len(undo_stack) = pre.undo_len + 1
           /\ undo_stack[Len(undo_stack)] =
                [message |-> UndoMessage(op), location |-> pre.location,
                 rotation_euler |-> pre.rotation_euler]
      ELSE Len(undo_stack) = pre.undo_len

\* A second successful call has moved and turned an object, and the step it
\* pushed holds the transforms from before it, which the first call had
\* changed already.
C13_Witness ==
    /\ op \in {"batch_align", "align_object_to_cursor"}
    /\ ret = None
    /\ Len(undo_stack) = 2
    /\ undo_stack[1].location # undo_stack[2].location
    /\ \E o \in Objects :
         /\ location[o] # undo_stack[2].location[o]
         /\ rotation_euler[o] # undo_stack[2].rotation_euler[o]

(***************************************************************************)
(* Properties of the alignment data                                        *)
(***************************************************************************)
\* The vertices of the selection compute_alignment_data chose, each once.
ChosenVerts ==
    IF bm_select.faces # {}
    THEN {v \in BMVerts : \E f \in bm_select.faces : \E n \in 1..Len(BMFaceVerts[f]) :
                            BMFaceVerts[f][n] = v}
    ELSE IF bm_select.edges # {}
    THEN {v \in BMVerts : \E e \in bm_select.edges : \E n \in 1..Len(BMEdgeVerts[e]) :
                            BMEdgeVerts[e][n] = v}
    ELSE bm_select.verts

RECURSIVE CoordinateSum(_, _)
\* The sum of coordinate i of the vertices of S.
CoordinateSum(S, i) ==
    IF S = {} THEN 0
    ELSE LET v == CHOOSE x \in S : TRUE IN VertCo[v][i] + CoordinateSum(S \ {v}, i)

\* C14: the location compute_alignment_data returns is the mean of the
\* distinct vertices of the chosen selection: a vertex of several selected
\* faces or edges counts once, and for a vertex selection it is the mean of
\* the selected vertices.
C14_LocationIsMedian ==
    (CursorNormalCalled /\ last_alignment.source # None) =>
      \A i \in Axes :
        last_alignment.location[i] * Cardinality(ChosenVerts) = CoordinateSum(ChosenVerts, i)

\* Two selected faces share vertices, or two selected edges share one, and
\* the call returned a location.
C14_Witness ==
    /\ CursorNormalCalled
    /\ last_alignment.source \in {"faces", "edges"}
    /\ Cardinality(ChosenVerts) \in {3, 6}
    /\ last_alignment.location # Zero

(***************************************************************************)
(* Properties of get_base_center_world                                     *)
(***************************************************************************)
\* The object of a call of base_log, as the function read it.
BaseObject(call) == ObjectOf(Scene, call.obj)

\* Point c has the middle of the corners' extents in x and y and their
\* least z.
IsBaseOfCorners(c, corners) ==
    /\ \A i \in {1, 2} :
         \E lo, hi \in corners :
           /\ \A v \in corners : lo[i] <= v[i] /\ v[i] <= hi[i]
           /\ 2 * c[i] = lo[i] + hi[i]
    /\ \E v \in corners : v[3] = c[3]
    /\ \A v \in corners : c[3] <= v[3]

\* C15: in bounding-box mode get_base_center_world returns the point with
\* the midpoints of the box's extents in x and y and the least z of the
\* eight corners: taken in local space and mapped by matrix_world when
\* ignore_rotation is false, taken over the corners transformed by rotation
\* times scale and moved by the world location when ignore_rotation is
\* true; where it is taken, its z is at most the z of every corner.
C15_BoxBaseCenter ==
    \A n \in 1..Len(base_log) :
      LET call == base_log[n]
          obj == BaseObject(call)
          m == matrix_world(obj)
          turned == MatMul(EulerToMatrix(obj.rotation_euler), Diagonal(obj.scale))
      IN  ~call.use_geometry =>
            IF call.ignore_rotation
            THEN IsBaseOfCorners(VSub(call.result, obj.location),
                                 {MatVec(turned, v) : v \in bound_box(obj)})
            ELSE \E x \in {v[1] + w[1] : v, w \in bound_box(obj)} :
                 \E y \in {v[2] + w[2] : v, w \in bound_box(obj)} :
                 \E z \in {v[3] : v \in bound_box(obj)} :
                   LET c == <<x \div 2, y \div 2, z>>
                   IN  /\ IsBaseOfCorners(c, bound_box(obj))
                       /\ call.result = VAdd(m.loc, MatVec(m.lin, c))

\* The function was called in bounding-box mode on a turned and unevenly
\* scaled mesh, with ignore_rotation and without, and the two points differ.
C15_Witness ==
    \E n, k \in 1..Len(base_log) :
      /\ ~base_log[n].use_geometry /\ ~base_log[k].use_geometry
      /\ base_log[n].obj = base_log[k].obj
      /\ base_log[n].ignore_rotation /\ ~base_log[k].ignore_rotation
      /\ rotation_euler[base_log[n].obj] # Zero
      /\ scale[base_log[n].obj] = <<2, 1, 3>>
      /\ base_log[n].result # base_log[k].result

\* C16: for an object without rotation (translation and scale of each
\* axis only, of any sign) get_base_center_world returns the same point
\* with ignore_rotation and without, in bounding-box mode and in geometry
\* mode.
C16_IgnoreRotationNoRotation ==
    \A n, k \in 1..Len(base_log) :
      (base_log[n].obj = base_log[k].obj
         /\ base_log[n].use_geometry = base_log[k].use_geometry
         /\ rotation_euler[base_log[n].obj] = Zero)
        => base_log[n].result = base_log[k].result

\* What the code gives: the same point when, besides, the scale of the z
\* axis is positive.
SameBaseWhenUpright ==
    \A n, k \in 1..Len(base_log) :
      (base_log[n].obj = base_log[k].obj
         /\ base_log[n].use_geometry = base_log[k].use_geometry
         /\ rotation_euler[base_log[n].obj] = Zero
         /\ scale[base_log[n].obj][3] > 0)
        => base_log[n].result = base_log[k].result

(***************************************************************************)
(* Properties of the cursor's frame                                        *)
(***************************************************************************)
\* The axes of the matrix the last call wrote.
WrittenFrame == Frame(last_alignment)

\* C17: whenever align_cursor_to_normal writes the cursor's matrix, the
\* three axes it builds, tangent, binormal and normal, are all non-zero
\* and pairwise perpendicular, with the normal as the Z axis, for every
\* selection that is not empty.
C17_OrthogonalFrame ==
    (CursorNormalCalled /\ matrix_writes = 1) =>
      /\ cursor_matrix.lin =
           MatMul(matrix_world(EditObject).lin,
                  Transposed(<<WrittenFrame.tangent, WrittenFrame.binormal,
                               WrittenFrame.normal>>))
      /\ WrittenFrame.normal = last_alignment.normal
      /\ WrittenFrame.tangent # Zero
      /\ WrittenFrame.binormal # Zero
      /\ WrittenFrame.normal # Zero
      /\ Dot(WrittenFrame.tangent, WrittenFrame.binormal) = 0
      /\ Dot(WrittenFrame.tangent, WrittenFrame.normal) = 0
      /\ Dot(WrittenFrame.binormal, WrittenFrame.normal) = 0

\* What the code gives: such a frame whenever neither the summed normal
\* nor the tangent is the zero vector.
FrameWhenNotDegenerate ==
    (CursorNormalCalled /\ matrix_writes = 1
       /\ last_alignment.normal # Zero /\ last_alignment.tangent # Zero) =>
      /\ WrittenFrame.tangent # Zero
      /\ WrittenFrame.binormal # Zero
      /\ Dot(WrittenFrame.tangent, WrittenFrame.binormal) = 0
      /\ Dot(WrittenFrame.tangent, WrittenFrame.normal) = 0
      /\ Dot(WrittenFrame.binormal, WrittenFrame.normal) = 0

=============================================================================
